---- MODULE Spec2Model ----
(***************************************************************************)
(* Model of Document_processing.process_document                          *)
(* (src/Upload_papers/Preprocessing/chunk_and_embed.py): the line-oriented *)
(* section segmenter, its flush closure, and the summary / embedding tail, *)
(* and of process_and_store_docs, which stores what each run returns.      *)
(* Text is modelled by TLA+ strings; Python's str methods and the regular  *)
(* expressions of the source are computed character by character.          *)
(***************************************************************************)
EXTENDS Integers, Sequences, FiniteSets, TLC

(***************************************************************************)
(* Bounds of the model.                                                    *)
(***************************************************************************)
\* Number of input lines (block separators included) drawn for one document.
MaxLines == 4

\* Number of input lines of a document drawn from HeaderLines.
MaxHeaderLines == 3

\* Number of words or sentences appended to a classified window.
MaxExtensions == 2

\* Number of input lines of a document that is processed twice.
MaxReplayLines == 3

\* Number of lines of the text of the first page.
MaxPageLines == 3

\* Number of paths in self.documents.
MaxDocuments == 2

\* Number of input lines of a document that is processed and stored.
MaxStoreLines == 1

(***************************************************************************)
(* Python string primitives.                                               *)
(***************************************************************************)
Ch(s, i) == SubSeq(s, i, i)

UpperLetters == "ABCDEFGHIJKLMNOPQRSTUVWXYZ"

LowerLetters == "abcdefghijklmnopqrstuvwxyz"

Digits == "123456789"

SpaceChars == {" ", "\n", "\t", "\r", "\f"}

DigitChars == {"0", "1", "2", "3", "4", "5", "6", "7", "8", "9"}

UpperChars == {Ch(UpperLetters, i) : i \in 1..26}

LowerChars == {Ch(LowerLetters, i) : i \in 1..26}

\* c.lower() for the cased characters.
LowerOf == [c \in UpperChars |->
               Ch(LowerLetters, CHOOSE i \in 1..26 : Ch(UpperLetters, i) = c)]

IsSpace(c) == c \in SpaceChars

IsDigit(c) == c \in DigitChars

IsUpperCh(c) == c \in UpperChars

IsLowerCh(c) == c \in LowerChars

IsAlpha(c) == IsUpperCh(c) \/ IsLowerCh(c)

LowerCh(c) == IF IsUpperCh(c) THEN LowerOf[c] ELSE c

RECURSIVE LowerFrom(_, _)
LowerFrom(s, i) ==
    IF i > Len(s) THEN "" ELSE LowerCh(Ch(s, i)) \o LowerFrom(s, i + 1)

\* str.lower()
Lower(s) == LowerFrom(s, 1)

RECURSIVE FirstNonSpace(_, _)
\* The first index from i on that holds no whitespace (Len(s) + 1 if none).
FirstNonSpace(s, i) ==
    IF i <= Len(s) /\ IsSpace(Ch(s, i)) THEN FirstNonSpace(s, i + 1) ELSE i

RECURSIVE LastNonSpace(_, _)
\* The last index up to i that holds no whitespace (0 if none).
LastNonSpace(s, i) ==
    IF i >= 1 /\ IsSpace(Ch(s, i)) THEN LastNonSpace(s, i - 1) ELSE i

LStrip(s) == SubSeq(s, FirstNonSpace(s, 1), Len(s))

RStrip(s) == SubSeq(s, 1, LastNonSpace(s, Len(s)))

\* str.strip()
Strip(s) == RStrip(LStrip(s))

\* str.startswith(p)
StartsWith(s, p) == Len(s) >= Len(p) /\ SubSeq(s, 1, Len(p)) = p

\* p in s
Contains(s, p) ==
    \E i \in 1..(Len(s) - Len(p) + 1) : SubSeq(s, i, i + Len(p) - 1) = p

RECURSIVE FirstSpace(_, _)
\* The first index from i on that holds whitespace (Len(s) + 1 if none).
FirstSpace(s, i) ==
    IF i <= Len(s) /\ ~IsSpace(Ch(s, i)) THEN FirstSpace(s, i + 1) ELSE i

\* Length of the maximal run of non-whitespace characters at the start of s.
FirstWordLen(s) == FirstSpace(s, 1) - 1

RECURSIVE SplitFrom(_, _)
SplitFrom(s, i) ==
    LET b == FirstNonSpace(s, i)
        e == FirstSpace(s, b)
    IN  IF b > Len(s) THEN <<>>
        ELSE <<SubSeq(s, b, e - 1)>> \o SplitFrom(s, e)

\* str.split(): the whitespace-separated tokens of s.
Split(s) == SplitFrom(s, 1)

RECURSIVE JoinWith(_, _)
\* sep.join(parts)
JoinWith(sep, parts) ==
    IF parts = <<>> THEN ""
    ELSE IF Len(parts) = 1 THEN parts[1]
    ELSE parts[1] \o sep \o JoinWith(sep, Tail(parts))

\* sum(1 for c in s if c in chars)
CountCh(s, chars) == Cardinality({i \in 1..Len(s) : Ch(s, i) \in chars})

\* str.isupper(): at least one cased character and no lowercase one.
IsUpper(s) == CountCh(s, UpperChars) > 0 /\ CountCh(s, LowerChars) = 0

(***************************************************************************)
(* Line classification (closures of process_document).                     *)
(***************************************************************************)
None == "<None>"

RECURSIVE IsDottedInt(_)
\* Full match of \d+(\.\d+)* .
IsDottedInt(w) ==
    LET k == CHOOSE n \in 0..Len(w) :
                 /\ \A i \in 1..n : IsDigit(Ch(w, i))
                 /\ (n = Len(w) \/ ~IsDigit(Ch(w, n + 1)))
    IN  /\ k >= 1
        /\ \/ k = Len(w)
           \/ /\ Ch(w, k + 1) = "."
              /\ IsDottedInt(SubSeq(w, k + 2, Len(w)))

\* section_header.match(line_stripped): ^\s*(\d+(?:\.\d+)*)\s+(.+?)\s*$ .
\* The number group is the first token, the title the trimmed remainder.
section_header(line) ==
    LET s == Strip(line)
        k == FirstWordLen(s)
        rest == Strip(SubSeq(s, k + 1, Len(s)))
    IN  IF k >= 1 /\ IsDottedInt(SubSeq(s, 1, k)) /\ rest # ""
        THEN [matched |-> TRUE, number |-> SubSeq(s, 1, k), title |-> rest]
        ELSE [matched |-> FALSE, number |-> "", title |-> ""]

\* Variant of _is_references_or_bibliography: the title is not lowered.
ReferencesOrBibliographyCaseSensitive(title) ==
    Contains(title, "references") \/ Contains(title, "bibliography")

_is_references_or_bibliography(title) ==
    LET t == Lower(title)
    IN  Contains(t, "references") \/ Contains(t, "bibliography")

\* re.match(r"^\d+(\.\d+)*\s+(references|bibliography)(\s|$)", t)
NumberedReferencesMatch(t) ==
    LET k == FirstWordLen(t)
        rest == LStrip(SubSeq(t, k + 1, Len(t)))
    IN  /\ k >= 1
        /\ IsDottedInt(SubSeq(t, 1, k))
        /\ k < Len(t)
        /\ \E w \in {"references", "bibliography"} :
              /\ StartsWith(rest, w)
              /\ (Len(rest) = Len(w) \/ IsSpace(Ch(rest, Len(w) + 1)))

\* Variant of _is_standalone_references_header: a line that starts with
\* "references " is a header whatever its number of tokens up to 10.
StandaloneReferencesHeaderLongTitle(line) ==
    LET s == Strip(line)
        t == Lower(s)
    IN  IF s = "" \/ Len(Split(s)) > 10 THEN FALSE
        ELSE IF t \in {"references", "bibliography"} THEN TRUE
        ELSE IF NumberedReferencesMatch(t) THEN TRUE
        ELSE StartsWith(t, "references ") \/ StartsWith(t, "bibliography ")

_is_standalone_references_header(line) ==
    LET s == Strip(line)
        t == Lower(s)
    IN  IF s = "" \/ Len(Split(s)) > 10 THEN FALSE
        ELSE IF t \in {"references", "bibliography"} THEN TRUE
        ELSE IF NumberedReferencesMatch(t) THEN TRUE
        ELSE IF Len(Split(s)) <= 4
                /\ (StartsWith(t, "references ") \/ StartsWith(t, "bibliography "))
             THEN TRUE
        ELSE FALSE

_is_appendix_header(line) ==
    LET s == Strip(line)
        t == Lower(s)
    IN  IF s = "" THEN FALSE
        ELSE IF ~Contains(t, "appendix") /\ ~Contains(t, "appendices") THEN FALSE
        ELSE Len(Split(s)) <= 15 /\ Len(s) <= 120

(***************************************************************************)
(* Prose classifier and windowing.                                         *)
(***************************************************************************)
RECURSIVE SumLen(_)
SumLen(ws) == IF ws = <<>> THEN 0 ELSE Len(Head(ws)) + SumLen(Tail(ws))

\* Variant of _is_proper_chunk_text: a digit share of exactly 0.4 is refused.
ProperChunkTextDigitsBelow(content) ==
    LET s == Strip(content)
        words == Split(s)
        n == Len(s)
        nw == Len(words)
        digits == CountCh(s, DigitChars)
        single == Cardinality({i \in 1..nw : Len(words[i]) = 1})
        alpha == Cardinality({i \in 1..nw : CountCh(words[i], UpperChars \cup LowerChars) > 0})
        unique == Cardinality({Lower(words[i]) : i \in 1..nw})
        sum_len == SumLen(words)
        has_end == \E c \in {".", "!", "?"} : Contains(s, c)
    IN  IF s = "" \/ n < 35 \/ nw < 5 THEN FALSE
        ELSE /\ 5 * digits < 2 * n
             /\ 100 * single <= 28 * nw
             /\ 2 * alpha >= nw
             /\ 10 * unique >= 3 * nw
             /\ (has_end \/ 10 * sum_len >= 32 * nw)
             /\ ~(IsUpper(s) /\ n < 80)

\* Variant of _is_proper_chunk_text: the uppercase test is on texts longer
\* than 80 characters.
ProperChunkTextUpperLong(content) ==
    LET s == Strip(content)
        words == Split(s)
        n == Len(s)
        nw == Len(words)
        digits == CountCh(s, DigitChars)
        single == Cardinality({i \in 1..nw : Len(words[i]) = 1})
        alpha == Cardinality({i \in 1..nw : CountCh(words[i], UpperChars \cup LowerChars) > 0})
        unique == Cardinality({Lower(words[i]) : i \in 1..nw})
        sum_len == SumLen(words)
        has_end == \E c \in {".", "!", "?"} : Contains(s, c)
    IN  IF s = "" \/ n < 35 \/ nw < 5 THEN FALSE
        ELSE /\ 5 * digits <= 2 * n
             /\ 100 * single <= 28 * nw
             /\ 2 * alpha >= nw
             /\ 10 * unique >= 3 * nw
             /\ (has_end \/ 10 * sum_len >= 32 * nw)
             /\ ~(IsUpper(s) /\ n > 80)

\* The comparisons of the source are on quotients; they are computed here
\* on cross-multiplied integers (digits/n <= 0.4 iff 5*digits <= 2*n, ...).
_is_proper_chunk_text(content) ==
    LET s == Strip(content)
        words == Split(s)
        n == Len(s)
        nw == Len(words)
        digits == CountCh(s, DigitChars)
        single == Cardinality({i \in 1..nw : Len(words[i]) = 1})
        alpha == Cardinality({i \in 1..nw : CountCh(words[i], UpperChars \cup LowerChars) > 0})
        unique == Cardinality({Lower(words[i]) : i \in 1..nw})
        sum_len == SumLen(words)
        has_end == \E c \in {".", "!", "?"} : Contains(s, c)
    IN  IF s = "" \/ n < 35 \/ nw < 5 THEN FALSE
        ELSE /\ 5 * digits <= 2 * n
             /\ 100 * single <= 28 * nw
             /\ 2 * alpha >= nw
             /\ 10 * unique >= 3 * nw
             /\ (has_end \/ 10 * sum_len >= 32 * nw)
             /\ ~(IsUpper(s) /\ n < 80)

\* SentenceSplitter.get_nodes_from_documents on the stripped text: a text
\* that fits one window of CHUNK_SIZE tokens comes back as that one window
\* (every text of the model does).
_chunk_section(text) ==
    LET t == Strip(text) IN IF t = "" THEN <<>> ELSE <<t>>

(***************************************************************************)
(* Inputs and collaborator outcomes.                                       *)
(***************************************************************************)
\* The text lines a document is drawn from: body prose, a short caption,
\* the header shapes the segmenter distinguishes, and a whitespace-only line.
Lines ==
    { "We train a dense retriever on Wikipedia.",
      "Fig. 3",
      "References",
      "7 Related references",
      "Appendix",
      "8.1 Appendix details",
      "1 Introduction",
      "3.2 Retrieval-Augmented Generation",
      " " }

\* The header shapes the references and numbered-header tests tell apart:
\* body prose, the references headers of each form, lines one token or one
\* character away from them, numbered headers with and without a dot and
\* one of 16 tokens, and an appendix header.
HeaderLines ==
    { "We train a dense retriever on Wikipedia.",
      "Bibliography",
      "6 References",
      "6 References.",
      "References and notes",
      "References to the prior work",
      "6 References a b c d e f g h i",
      "7 Related References",
      "1 Introduction",
      "3.2 Retrieval-Augmented Generation",
      "4 a b c d e f g h i j k l m n o",
      "Appendix" }

\* The lines of the documents that are processed and stored: a body line
\* holding a form feed, a caption the prose classifier refuses, and a
\* numbered header.
StoreLines ==
    { "Dense retrieval\fanswers open questions over Wikipedia.",
      "Fig. 3",
      "1 Introduction" }

\* Every line some document is drawn from.
Vocabulary == Lines \cup HeaderLines \cup StoreLines

\* An empty line: full_text.split("\n\n") ends a block there.
BlockSeparator == ""

\* The exception an OpenAI call raises (unavailable, timeout, error).
Raise == "<raise>"

\* No request was sent.
NoCall == "<no call>"

\* resp.choices[0].message.content of the k-th per-section request: nothing,
\* or a reply of two lines that names the request it answers.
FactContents(k) == {None, " Fact " \o Ch(Digits, k) \o ".\nMore."}

\* resp.choices[0].message.content of the document-summary request.
SummaryContents == {None, " Retrieval-augmented generation summary. "}

\* Outcome of client.embeddings.create: an embedding, or an empty resp.data.
EmbeddingResults == {"<vector>", "<no data>"}

(***************************************************************************)
(* State of one process_document run.                                      *)
(***************************************************************************)
VARIABLES
    pc,                          \* "lines", "condense", "embed", "done", "raised";
                                 \* under process_and_store_docs also
                                 \* "store_document", "store_chunks", "stored"
    doc,                         \* the lines read so far (BlockSeparator between blocks)
    current_section,
    current_subsection,
    section_content,             \* list of parts; a part is the list of the
                                 \* positions in doc of the lines joined into it
    current_part,                \* positions in doc of the lines of the open part
    in_references,
    chunks_out,
    section_sentences,
    document_summary,
    document,                    \* the returned Document, None before the return
    fact_log,                    \* history: the flushes that reached the fact extractor
    summary_log,                 \* history: requests sent to the summarizer
    embed_log,                   \* history: requests sent to the embedder
    acc_labels,                  \* history: per position, the labels current when
                                 \* the line was appended to current_part
    headers,                     \* history: the headings applied, in order
    window,                      \* the pieces of a text given to the prose
                                 \* classifier on its own, joined by spaces
    verdict,                     \* what _is_proper_chunk_text returned for it
    first_run,                   \* empty, or the input and the results of an
                                 \* earlier run of process_document on the
                                 \* document now processed again
    pages,                       \* the pages of a PDF, each the list of the
                                 \* lines of its extract_text()
    full_text,                   \* None until the pages are read
    blocks,
    doc_paths,                   \* the paths of self.documents the loop of
                                 \* process_and_store_docs has taken, the
                                 \* last one being handled
    chunks,                      \* what embed_chunks returned
    documents_table,             \* the rows of table "documents"
    chunks_table                 \* the rows of table "chunks", in insertion order

\* The state of the run of process_document.
runVars ==
    <<pc, doc, current_section, current_subsection, section_content,
      current_part, in_references, chunks_out, section_sentences,
      document_summary, document, fact_log, summary_log, embed_log,
      acc_labels, headers>>

\* The state of the functions exercised on their own, which a run of
\* process_document leaves alone.
pageVars == <<pages, full_text, blocks>>

\* The state of process_and_store_docs around the run, and the two tables.
storeVars == <<doc_paths, chunks, documents_table, chunks_table>>

aside == <<window, verdict, first_run, pageVars, storeVars>>

vars == <<runVars, aside>>

\* current_section before the first line is read.
InitialSection == "Abstract"

NoLabels == [section |-> None, subsection |-> None]

\* The locals of process_document before the loop.
InitRun ==
    /\ pc = "lines"
    /\ doc = <<>>
    /\ current_section = InitialSection
    /\ current_subsection = None
    /\ section_content = <<>>
    /\ current_part = <<>>
    /\ in_references = FALSE
    /\ chunks_out = <<>>
    /\ section_sentences = <<>>
    /\ document_summary = None
    /\ document = None
    /\ fact_log = <<>>
    /\ summary_log = <<>>
    /\ embed_log = <<>>
    /\ acc_labels = <<>>
    /\ headers = <<>>

\* No text is under classification on its own.
NoWindow == window = <<>> /\ verdict = FALSE

\* No earlier run.
NoFirstRun == first_run = <<>>

\* No PDF is read on its own.
NoPages == pages = <<>> /\ full_text = None /\ blocks = <<>>

\* process_document is called on its own: no loop over paths, empty tables.
NoStore ==
    /\ doc_paths = <<>>
    /\ chunks = <<>>
    /\ documents_table = {}
    /\ chunks_table = <<>>

Init == InitRun /\ NoWindow /\ NoFirstRun /\ NoPages /\ NoStore

(***************************************************************************)
(* flush() and the collaborators it calls.                                 *)
(***************************************************************************)
\* "\n".join(current_part) for a part given by its positions in d.
PartText(d, part) == JoinWith("\n", [i \in 1..Len(part) |-> d[part[i]]])

\* " ".join(section_content).strip()
Combined(d, sc) == Strip(JoinWith(" ", [i \in 1..Len(sc) |-> PartText(d, sc[i])]))

RECURSIVE Positions(_)
\* The positions of the lines joined into the parts of sc, in order.
Positions(sc) == IF sc = <<>> THEN <<>> ELSE Head(sc) \o Positions(Tail(sc))

\* flush() gets past its two early returns; combined is
\* " ".join(section_content).strip().
FlushRuns(sc, combined) == sc # <<>> /\ combined # ""

RECURSIVE FirstNewline(_, _)
\* The first index from i on that holds a newline (Len(s) + 1 if none).
FirstNewline(s, i) ==
    IF i <= Len(s) /\ Ch(s, i) # "\n" THEN FirstNewline(s, i + 1) ELSE i

\* line.split("\n")[0]
FirstLine(s) == SubSeq(s, 1, FirstNewline(s, 1) - 1)

\* _extract_section_usage_line, given the content the model replied with.
_extract_section_usage_line(section_text, content) ==
    IF section_text = "" \/ Strip(section_text) = "" THEN ""
    ELSE LET line == Strip(IF content = None THEN "" ELSE content)
         IN  IF line # "" THEN Strip(FirstLine(line)) ELSE ""

\* What the fact request of a flush of sc can come to.
FactOutcomes(sc, combined) ==
    IF FlushRuns(sc, combined)
    THEN FactContents(Len(fact_log) + 1) \cup {Raise}
    ELSE {NoCall}

\* The chunks one flush appends: the windows the prose classifier accepts,
\* tagged with the labels read at the time of the flush. src (history) is
\* the positions of the lines the flushed text was joined from.
NewChunks(sc, combined, section, subsection) ==
    LET windows == _chunk_section(combined)
        kept == SelectSeq(windows, LAMBDA w : w # "" /\ _is_proper_chunk_text(w))
    IN  [i \in 1..Len(kept) |->
            [content |-> kept[i], section |-> section,
             subsection |-> subsection, src |-> Positions(sc)]]

\* Variant of SentencesAfter: the sentence is inserted at the front.
SentencesAfterPrepends(combined, content) ==
    LET usage_line == _extract_section_usage_line(combined, content)
    IN  IF usage_line # "" THEN <<usage_line>> \o section_sentences
        ELSE section_sentences

\* section_sentences after a flush whose fact request returned content.
SentencesAfter(combined, content) ==
    LET usage_line == _extract_section_usage_line(combined, content)
    IN  IF usage_line # "" THEN Append(section_sentences, usage_line)
        ELSE section_sentences

\* Variant of LabelsAtFlush: the heading is assigned before the flush.
LabelsOfNewHeading(heading) == heading

\* The labels the flush closure reads when a header line triggers it: the
\* caller assigns the labels of the new heading only after flush() returns.
LabelsAtFlush(heading) ==
    [section |-> current_section, subsection |-> current_subsection]

\* Variant of flush: the chunks are appended under "if usage_line:".
flushChunksWithFact(sc, combined, r, heading) ==
    IF ~FlushRuns(sc, combined)
    THEN /\ section_content' = sc
         /\ UNCHANGED <<section_sentences, chunks_out, fact_log>>
    ELSE /\ fact_log' = Append(fact_log, [src |-> Positions(sc),
                                          text |-> combined,
                                          response |-> r])
         /\ IF r = Raise
            THEN /\ section_content' = sc
                 /\ UNCHANGED <<section_sentences, chunks_out>>
            ELSE /\ section_sentences' = SentencesAfter(combined, r)
                 /\ chunks_out' =
                        IF _extract_section_usage_line(combined, r) = ""
                        THEN chunks_out
                        ELSE chunks_out \o
                             NewChunks(sc, combined, LabelsAtFlush(heading).section,
                                       LabelsAtFlush(heading).subsection)
                 /\ section_content' = <<>>

\* flush() on the buffer sc (section_content after the caller's append),
\* whose joined text is combined, with outcome r of the fact request;
\* heading is the labels the caller assigns after the flush.
flush(sc, combined, r, heading) ==
    IF ~FlushRuns(sc, combined)
    THEN /\ section_content' = sc
         /\ UNCHANGED <<section_sentences, chunks_out, fact_log>>
    ELSE /\ fact_log' = Append(fact_log, [src |-> Positions(sc),
                                          text |-> combined,
                                          response |-> r])
         /\ IF r = Raise
            THEN /\ section_content' = sc
                 /\ UNCHANGED <<section_sentences, chunks_out>>
            ELSE /\ section_sentences' = SentencesAfter(combined, r)
                 /\ chunks_out' = chunks_out \o
                        NewChunks(sc, combined, LabelsAtFlush(heading).section,
                                  LabelsAtFlush(heading).subsection)
                 /\ section_content' = <<>>

\* if current_part: section_content.append("\n".join(current_part))
WithPart(sc, part) == IF part # <<>> THEN Append(sc, part) ELSE sc

(***************************************************************************)
(* The loop over the lines of the blocks.                                  *)
(***************************************************************************)
LastLine == IF doc = <<>> THEN BlockSeparator ELSE doc[Len(doc)]

\* The block being read has at least one line.
BlockOpen == LastLine # BlockSeparator

\* Variant of IsNumberedHeader: a match of any number of tokens.
IsNumberedHeaderAnyLength(line_stripped) ==
    section_header(line_stripped).matched

\* match and len(line_stripped.split()) <= 15
IsNumberedHeader(line_stripped) ==
    section_header(line_stripped).matched /\ Len(Split(line_stripped)) <= 15

Labels == [section |-> current_section, subsection |-> current_subsection]

\* The tests of the loop body on each input line, evaluated once per line.
LineTests ==
    [l \in Vocabulary |->
        LET line_stripped == Strip(l)
        IN  [line_stripped |-> line_stripped,
             appendix |-> _is_appendix_header(line_stripped),
             standalone |-> _is_standalone_references_header(line_stripped),
             numbered |-> IsNumberedHeader(line_stripped),
             match |-> section_header(line_stripped),
             references_title |->
                 _is_references_or_bibliography(
                     Strip(section_header(line_stripped).title))]]

\* blocks are stripped and non-empty: no block starts or ends with a
\* whitespace-only line.
CanRead(l) ==
    /\ pc = "lines"
    /\ Len(doc) < MaxLines
    /\ (LineTests[l].line_stripped = "" => BlockOpen)

CanEndBlock == LastLine # BlockSeparator /\ Strip(LastLine) # ""

\* Variant of AppendixHeading: every appendix header opens a section.
AppendixHeadingAlwaysSection(line_stripped) ==
    [section |-> line_stripped, subsection |-> None]

\* The labels after an appendix header ends the references.
AppendixHeading(line_stripped) ==
    LET match == section_header(line_stripped)
    IN  IF match.matched /\ Len(Split(line_stripped)) <= 15
        THEN IF Contains(match.number, ".")
             THEN [section |-> current_section, subsection |-> line_stripped]
             ELSE [section |-> line_stripped, subsection |-> None]
        ELSE [section |-> line_stripped, subsection |-> None]

\* Variant of NumberedHeading: a new section keeps the old subsection.
NumberedHeadingKeepsSubsection(line_stripped) ==
    LET match == section_header(line_stripped)
    IN  IF Contains(match.number, ".")
        THEN [section |-> current_section, subsection |-> line_stripped]
        ELSE [section |-> line_stripped, subsection |-> current_subsection]

\* Variant of NumberedHeading: a subsection header unsets the section.
NumberedHeadingUnsetsSection(line_stripped) ==
    LET match == section_header(line_stripped)
    IN  IF Contains(match.number, ".")
        THEN [section |-> None, subsection |-> line_stripped]
        ELSE [section |-> line_stripped, subsection |-> None]

\* The labels after a numbered header outside the references.
NumberedHeading(line_stripped) ==
    LET match == section_header(line_stripped)
    IN  IF Contains(match.number, ".")
        THEN [section |-> current_section, subsection |-> line_stripped]
        ELSE [section |-> line_stripped, subsection |-> None]

\* History: the header line just applied as a heading, with the level its
\* numeric prefix gives it (a dot: subsection).
HeaderEntry(line_stripped) ==
    [pos |-> Len(doc) + 1,
     level |-> IF IsNumberedHeader(line_stripped)
                  /\ Contains(section_header(line_stripped).number, ".")
               THEN "subsection" ELSE "section"]

\* Inside the references, an appendix header: leave the references, flush,
\* apply the header as a heading.
RefsAppendixHeader(l) ==
    LET line_stripped == LineTests[l].line_stripped
        sc == WithPart(section_content, current_part)
        combined == Combined(doc, sc)
    IN  /\ CanRead(l)
        /\ in_references
        /\ LineTests[l].appendix
        /\ doc' = Append(doc, l)
        /\ acc_labels' = Append(acc_labels, NoLabels)
        /\ in_references' = FALSE
        /\ \E r \in FactOutcomes(sc, combined) :
              /\ flush(sc, combined, r, AppendixHeading(line_stripped))
              /\ IF r = Raise
                 THEN /\ pc' = "raised"
                      /\ UNCHANGED <<current_section, current_subsection,
                                     current_part, headers>>
                 ELSE /\ pc' = pc
                      /\ current_section' = AppendixHeading(line_stripped).section
                      /\ current_subsection' = AppendixHeading(line_stripped).subsection
                      /\ current_part' = <<>>
                      /\ headers' = Append(headers,
                                           HeaderEntry(line_stripped))
        /\ UNCHANGED <<document_summary, document, summary_log, embed_log>>
        /\ UNCHANGED aside

\* Variant of RefsDiscard: the line is kept in the open part.
RefsDiscardKeepsLine(l) ==
    /\ CanRead(l)
    /\ in_references
    /\ ~LineTests[l].appendix
    /\ doc' = Append(doc, l)
    /\ acc_labels' = Append(acc_labels, NoLabels)
    /\ current_part' = Append(current_part, Len(doc) + 1)
    /\ UNCHANGED <<pc, current_section, current_subsection, section_content,
                   in_references, chunks_out, section_sentences,
                   document_summary, document, fact_log, summary_log,
                   embed_log, headers>>
    /\ UNCHANGED aside

\* Inside the references, any other line: continue.
RefsDiscard(l) ==
    /\ CanRead(l)
    /\ in_references
    /\ ~LineTests[l].appendix
    /\ doc' = Append(doc, l)
    /\ acc_labels' = Append(acc_labels, NoLabels)
    /\ UNCHANGED <<pc, current_section, current_subsection, section_content,
                   current_part, in_references, chunks_out, section_sentences,
                   document_summary, document, fact_log, summary_log,
                   embed_log, headers>>
    /\ UNCHANGED aside

\* A standalone references header: flush and enter the references.
StandaloneReferencesHeader(l) ==
    LET line_stripped == LineTests[l].line_stripped
        sc == WithPart(section_content, current_part)
        combined == Combined(doc, sc)
    IN  /\ CanRead(l)
        /\ ~in_references
        /\ LineTests[l].standalone
        /\ doc' = Append(doc, l)
        /\ acc_labels' = Append(acc_labels, NoLabels)
        /\ \E r \in FactOutcomes(sc, combined) :
              /\ flush(sc, combined, r, Labels)
              /\ IF r = Raise
                 THEN pc' = "raised" /\ UNCHANGED in_references
                 ELSE pc' = pc /\ in_references' = TRUE
        /\ UNCHANGED <<current_section, current_subsection, current_part,
                       document_summary, document, summary_log, embed_log,
                       headers>>
        /\ UNCHANGED aside

\* A numbered header whose title names the references: flush and enter the
\* references.
NumberedReferencesHeader(l) ==
    LET line_stripped == LineTests[l].line_stripped
        sc == WithPart(section_content, current_part)
        combined == Combined(doc, sc)
    IN  /\ CanRead(l)
        /\ ~in_references
        /\ ~LineTests[l].standalone
        /\ LineTests[l].numbered
        /\ LineTests[l].references_title
        /\ doc' = Append(doc, l)
        /\ acc_labels' = Append(acc_labels, NoLabels)
        /\ \E r \in FactOutcomes(sc, combined) :
              /\ flush(sc, combined, r, Labels)
              /\ IF r = Raise
                 THEN pc' = "raised" /\ UNCHANGED in_references
                 ELSE pc' = pc /\ in_references' = TRUE
        /\ UNCHANGED <<current_section, current_subsection, current_part,
                       document_summary, document, summary_log, embed_log,
                       headers>>
        /\ UNCHANGED aside

\* Any other numbered header: flush and open the section or subsection.
NumberedHeader(l) ==
    LET line_stripped == LineTests[l].line_stripped
        sc == WithPart(section_content, current_part)
        combined == Combined(doc, sc)
    IN  /\ CanRead(l)
        /\ ~in_references
        /\ ~LineTests[l].standalone
        /\ LineTests[l].numbered
        /\ ~LineTests[l].references_title
        /\ doc' = Append(doc, l)
        /\ acc_labels' = Append(acc_labels, NoLabels)
        /\ \E r \in FactOutcomes(sc, combined) :
              /\ flush(sc, combined, r, NumberedHeading(line_stripped))
              /\ IF r = Raise
                 THEN /\ pc' = "raised"
                      /\ UNCHANGED <<current_section, current_subsection,
                                     current_part, headers>>
                 ELSE /\ pc' = pc
                      /\ current_section' = NumberedHeading(line_stripped).section
                      /\ current_subsection' = NumberedHeading(line_stripped).subsection
                      /\ current_part' = <<>>
                      /\ headers' = Append(headers,
                                           HeaderEntry(line_stripped))
        /\ UNCHANGED <<in_references, document_summary, document, summary_log,
                       embed_log>>
        /\ UNCHANGED aside

\* Variant of Accumulate: an appendix-shaped line is dropped.
AccumulateUnlessAppendix(part, l, pos) ==
    IF LineTests[l].appendix THEN part ELSE Append(part, pos)

\* current_part.append(line): the line at position pos joins the open part.
Accumulate(part, l, pos) == Append(part, pos)

\* Any other line: current_part.append(line).
PlainLine(l) ==
    LET line_stripped == LineTests[l].line_stripped
    IN  /\ CanRead(l)
        /\ ~in_references
        /\ ~LineTests[l].standalone
        /\ ~LineTests[l].numbered
        /\ doc' = Append(doc, l)
        /\ acc_labels' = Append(acc_labels, Labels)
        /\ current_part' = Accumulate(current_part, l, Len(doc) + 1)
        /\ UNCHANGED <<pc, current_section, current_subsection, section_content,
                       in_references, chunks_out, section_sentences,
                       document_summary, document, fact_log, summary_log,
                       embed_log, headers>>
        /\ UNCHANGED aside

\* Variant of AtBlockEnd: the open part is appended inside the references
\* too.
AtBlockEndInReferences ==
    IF current_part # <<>>
    THEN Append(section_content, current_part)
    ELSE section_content

\* section_content after the end of a block.
AtBlockEnd ==
    IF ~in_references /\ current_part # <<>>
    THEN Append(section_content, current_part)
    ELSE section_content

\* The block ends and the next one starts with an empty current_part.
EndBlock ==
    /\ pc = "lines"
    /\ Len(doc) < MaxLines
    /\ CanEndBlock
    /\ doc' = Append(doc, BlockSeparator)
    /\ acc_labels' = Append(acc_labels, NoLabels)
    /\ section_content' = AtBlockEnd
    /\ current_part' = <<>>
    /\ UNCHANGED <<pc, current_section, current_subsection, in_references,
                   chunks_out, section_sentences, document_summary, document,
                   fact_log, summary_log, embed_log, headers>>
    /\ UNCHANGED aside

\* The last block ends; the final flush unless inside the references.
EndDocument ==
    /\ pc = "lines"
    /\ (doc = <<>> \/ Strip(LastLine) # "" \/ LastLine = BlockSeparator)
    /\ IF in_references
       THEN /\ pc' = "condense"
            /\ section_content' = AtBlockEnd
            /\ UNCHANGED <<section_sentences, chunks_out, fact_log>>
       ELSE \E r \in FactOutcomes(AtBlockEnd, Combined(doc, AtBlockEnd)) :
              /\ flush(AtBlockEnd, Combined(doc, AtBlockEnd), r, Labels)
              /\ pc' = IF r = Raise THEN "raised" ELSE "condense"
    /\ UNCHANGED <<doc, current_section, current_subsection, current_part,
                   in_references, document_summary, document, summary_log,
                   embed_log, acc_labels, headers>>
    /\ UNCHANGED aside

(***************************************************************************)
(* After the loop: summary, embedding, return.                             *)
(***************************************************************************)
\* Variant of SummaryOutcomes: the request is sent for an empty list too.
SummaryOutcomesAlwaysAsks == SummaryContents \cup {Raise}

\* What the summary request can come to.
SummaryOutcomes ==
    IF section_sentences = <<>> THEN {NoCall} ELSE SummaryContents \cup {Raise}

\* _condense_sentences_to_summary, given the outcome of its request.
_condense_sentences_to_summary(section_sentences_, outcome) ==
    IF section_sentences_ = <<>> THEN ""
    ELSE Strip(IF outcome = None THEN "" ELSE outcome)

\* Variant of CondenseSummary: the summary is also asked for before the
\* loop has ended.
CondenseSummaryInLoop ==
    /\ pc \in {"lines", "condense"}
    /\ \E c \in SummaryOutcomes :
          /\ summary_log' =
                IF c = NoCall THEN summary_log
                ELSE Append(summary_log, [sentences |-> section_sentences,
                                          response |-> c])
          /\ IF c = Raise
             THEN pc' = "raised" /\ UNCHANGED document_summary
             ELSE /\ pc' = "embed"
                  /\ document_summary' =
                        _condense_sentences_to_summary(section_sentences, c)
    /\ UNCHANGED <<doc, current_section, current_subsection, section_content,
                   current_part, in_references, chunks_out, section_sentences,
                   document, fact_log, embed_log, acc_labels, headers>>
    /\ UNCHANGED aside

CondenseSummary ==
    /\ pc = "condense"
    /\ \E c \in SummaryOutcomes :
          /\ summary_log' =
                IF c = NoCall THEN summary_log
                ELSE Append(summary_log, [sentences |-> section_sentences,
                                          response |-> c])
          /\ IF c = Raise
             THEN pc' = "raised" /\ UNCHANGED document_summary
             ELSE /\ pc' = "embed"
                  /\ document_summary' =
                        _condense_sentences_to_summary(section_sentences, c)
    /\ UNCHANGED <<doc, current_section, current_subsection, section_content,
                   current_part, in_references, chunks_out, section_sentences,
                   document, fact_log, embed_log, acc_labels, headers>>
    /\ UNCHANGED aside

\* What the embedding request of text can come to.
EmbedOutcomes(text) ==
    IF text = "" \/ Strip(text) = "" THEN {NoCall}
    ELSE EmbeddingResults \cup {Raise}

\* _embed_text, given the outcome of its request.
_embed_text(text, outcome) ==
    IF text = "" \/ Strip(text) = "" THEN None
    ELSE IF outcome = "<no data>" THEN None
    ELSE outcome

\* document_summary_embedding = _embed_text(...), then the Document is
\* built and returned with chunks_out.
EmbedAndReturn ==
    /\ pc = "embed"
    /\ \E e \in EmbedOutcomes(document_summary) :
          /\ embed_log' =
                IF e = NoCall THEN embed_log
                ELSE Append(embed_log, [text |-> Strip(document_summary),
                                        response |-> e])
          /\ IF e = Raise
             THEN pc' = "raised" /\ UNCHANGED document
             ELSE /\ pc' = "done"
                  /\ document' =
                        [document_summary |-> document_summary,
                         document_summary_embedding |->
                             _embed_text(document_summary, e)]
    /\ UNCHANGED <<doc, current_section, current_subsection, section_content,
                   current_part, in_references, chunks_out, section_sentences,
                   document_summary, fact_log, summary_log, acc_labels, headers>>
    /\ UNCHANGED aside

Next ==
    \/ \E l \in Lines : RefsAppendixHeader(l)
    \/ \E l \in Lines : RefsDiscard(l)
    \/ \E l \in Lines : StandaloneReferencesHeader(l)
    \/ \E l \in Lines : NumberedReferencesHeader(l)
    \/ \E l \in Lines : NumberedHeader(l)
    \/ \E l \in Lines : PlainLine(l)
    \/ EndBlock
    \/ EndDocument
    \/ CondenseSummary
    \/ EmbedAndReturn

Spec == Init /\ [][Next]_vars

\* The document drawn from HeaderLines can take another line.
ShortDocument == Len(doc) < MaxHeaderLines

\* The loop of process_document over documents drawn from HeaderLines, up to
\* the final flush.
NextHeaders ==
    \/ \E l \in HeaderLines : ShortDocument /\ RefsAppendixHeader(l)
    \/ \E l \in HeaderLines : ShortDocument /\ RefsDiscard(l)
    \/ \E l \in HeaderLines : ShortDocument /\ StandaloneReferencesHeader(l)
    \/ \E l \in HeaderLines : ShortDocument /\ NumberedReferencesHeader(l)
    \/ \E l \in HeaderLines : ShortDocument /\ NumberedHeader(l)
    \/ \E l \in HeaderLines : ShortDocument /\ PlainLine(l)
    \/ ShortDocument /\ EndBlock
    \/ EndDocument

SpecHeaders == Init /\ [][NextHeaders]_vars

(***************************************************************************)
(* _is_proper_chunk_text on its own: a window is classified, then words    *)
(* or sentences are appended to it and the longer window is classified.    *)
(***************************************************************************)
\* The windows first classified: the two of the specification's scenarios
\* and, for each test of the classifier, windows at and next to its
\* threshold.
Windows ==
    { "The method achieves 94% accuracy on the test set using a transformer encoder.",
      "12 45 78 90 3 21",
      "We train a dense retriever on Wikipedia.",
      "Dense retrieval answers open tasks",
      "Dense retrievers answers open tasks",
      "Retrieval-augmented generation answers questions",
      "run1234567 set1234567 on the tests.",
      "Accuracy 94% 95% 96% improves retrieval.",
      "data data data data model model model tests tests tests",
      "we do not see any of the new big old red",
      "the cat and the dog saw the big blue bird",
      "the cat and the dog saw the big blue owl",
      "DENSE RETRIEVAL MODELS ANSWER OPEN QUESTIONS.",
      "DENSE RETRIEVAL MODELS ANSWER OPEN QUESTIONS OVER WIKIPEDIA PASSAGES AND TABLES",
      "DENSE RETRIEVAL MODELS ANSWER OPEN QUESTIONS OVER WIKIPEDIA PASSAGES AND TABLES." }

\* Single words appended to a window.
Words == {"a", "7", "97%", "data", "well"}

\* Sentences appended to a window: alphabetic words, terminal punctuation.
Sentences == {"I am a man.", "IT WORKS.", "Data model tests."}

\* The text of the window: its pieces separated by one space.
Text(w) == JoinWith(" ", w)

InitProse ==
    /\ InitRun
    /\ NoFirstRun
    /\ NoPages
    /\ NoStore
    /\ \E w \in Windows :
          /\ window = <<w>>
          /\ verdict = _is_proper_chunk_text(w)

\* The window can take another piece.
CanExtend == window # <<>> /\ Len(window) <= MaxExtensions

AppendWord(w) ==
    /\ CanExtend
    /\ window' = Append(window, w)
    /\ verdict' = _is_proper_chunk_text(Text(window'))
    /\ UNCHANGED <<runVars, first_run, pageVars, storeVars>>

AppendSentence(w) ==
    /\ CanExtend
    /\ window' = Append(window, w)
    /\ verdict' = _is_proper_chunk_text(Text(window'))
    /\ UNCHANGED <<runVars, first_run, pageVars, storeVars>>

NextProse ==
    \/ \E w \in Words : AppendWord(w)
    \/ \E w \in Sentences : AppendSentence(w)

SpecProse == InitProse /\ [][NextProse]_vars

(***************************************************************************)
(* Two runs of process_document on the same document.                      *)
(***************************************************************************)
ReplayLines ==
    { "We train a dense retriever on Wikipedia.",
      "Fig. 3",
      "References",
      "Appendix",
      "1 Introduction",
      "3.2 Retrieval-Augmented Generation" }

\* The document of the first run, and <<>> during the first run.
FirstDoc == IF first_run = <<>> THEN <<>> ELSE first_run[1].doc

\* The next line can be l: any line in the first run, the line the first
\* run read at this position in the second.
Replays(l) ==
    /\ Len(doc) < MaxReplayLines
    /\ first_run # <<>> =>
          Len(doc) < Len(FirstDoc) /\ FirstDoc[Len(doc) + 1] = l

\* The document ends here: anywhere in the first run, where the first run's
\* document ended in the second.
ReplaysEnd == first_run # <<>> => Len(doc) = Len(FirstDoc)

\* process_document has returned and is called again on the same document.
RunAgain ==
    /\ pc = "done"
    /\ first_run = <<>>
    /\ first_run' = <<[doc |-> doc,
                        chunks |-> chunks_out,
                        section_sentences |-> section_sentences,
                        document |-> document]>>
    /\ pc' = "lines"
    /\ doc' = <<>>
    /\ current_section' = InitialSection
    /\ current_subsection' = None
    /\ section_content' = <<>>
    /\ current_part' = <<>>
    /\ in_references' = FALSE
    /\ chunks_out' = <<>>
    /\ section_sentences' = <<>>
    /\ document_summary' = None
    /\ document' = None
    /\ fact_log' = <<>>
    /\ summary_log' = <<>>
    /\ embed_log' = <<>>
    /\ acc_labels' = <<>>
    /\ headers' = <<>>
    /\ UNCHANGED <<window, verdict, pageVars, storeVars>>

NextReplay ==
    \/ \E l \in ReplayLines : Replays(l) /\ RefsAppendixHeader(l)
    \/ \E l \in ReplayLines : Replays(l) /\ RefsDiscard(l)
    \/ \E l \in ReplayLines : Replays(l) /\ StandaloneReferencesHeader(l)
    \/ \E l \in ReplayLines : Replays(l) /\ NumberedHeader(l)
    \/ \E l \in ReplayLines : Replays(l) /\ PlainLine(l)
    \/ Replays(BlockSeparator) /\ EndBlock
    \/ ReplaysEnd /\ EndDocument
    \/ CondenseSummary
    \/ EmbedAndReturn
    \/ RunAgain

SpecReplay == Init /\ [][NextReplay]_vars

(***************************************************************************)
(* The text of the pages before the loop: the first page from its          *)
(* "Abstract" line on, then the other pages, cut into blocks.              *)
(***************************************************************************)
\* s.find(sep) + 1: the first position where sep occurs in s, 0 if there is
\* none.
Find(s, sep) ==
    LET at == {i \in 1..(Len(s) - Len(sep) + 1) :
                  SubSeq(s, i, i + Len(sep) - 1) = sep}
    IN  IF at = {} THEN 0 ELSE CHOOSE i \in at : \A j \in at : i <= j

RECURSIVE SplitOn(_, _)
\* s.split(sep)
SplitOn(s, sep) ==
    LET k == Find(s, sep)
    IN  IF k = 0 THEN <<s>>
        ELSE <<SubSeq(s, 1, k - 1)>>
             \o SplitOn(SubSeq(s, k + Len(sep), Len(s)), sep)

\* re.match(r"^\s*abstract\s*$", ln.strip(), re.IGNORECASE)
IsAbstractLine(ln) == Lower(Strip(ln)) = "abstract"

RECURSIVE FirstAbstractLine(_, _)
\* The index of the first abstract line of first_page_lines from i on, 0 if
\* there is none (abstract_start is that index, counted from 0, plus 1).
FirstAbstractLine(first_page_lines, i) ==
    IF i > Len(first_page_lines) THEN 0
    ELSE IF IsAbstractLine(first_page_lines[i]) THEN i
    ELSE FirstAbstractLine(first_page_lines, i + 1)

\* Variant of first_page_from_abstract: the text starts at the "Abstract"
\* line.
FirstPageFromAbstractLine(first_page_text) ==
    LET first_page_lines == SplitOn(first_page_text, "\n")
        k == FirstAbstractLine(first_page_lines, 1)
    IN  IF k = 0 THEN first_page_text
        ELSE Strip(JoinWith("\n", SubSeq(first_page_lines, k,
                                         Len(first_page_lines))))

first_page_from_abstract(first_page_text) ==
    LET first_page_lines == SplitOn(first_page_text, "\n")
        k == FirstAbstractLine(first_page_lines, 1)
    IN  IF k = 0 THEN first_page_text
        ELSE Strip(JoinWith("\n", SubSeq(first_page_lines, k + 1,
                                         Len(first_page_lines))))

\* page.extract_text() or "" of a page given by its lines.
ExtractText(page) == JoinWith("\n", page)

\* full_text of the PDF with pages ps.
FullText(ps) ==
    LET first_page_text == Strip(ExtractText(ps[1]))
        rest_pages == JoinWith("\n\n", [i \in 1..(Len(ps) - 1) |->
                                            Strip(ExtractText(ps[i + 1]))])
    IN  first_page_from_abstract(first_page_text)
        \o (IF Strip(rest_pages) # "" THEN "\n\n" \o rest_pages ELSE "")

RECURSIVE StripNonEmpty(_)
\* [b.strip() for b in bs if b.strip()]
StripNonEmpty(bs) ==
    IF bs = <<>> THEN <<>>
    ELSE (IF Strip(Head(bs)) # "" THEN <<Strip(Head(bs))>> ELSE <<>>)
         \o StripNonEmpty(Tail(bs))

\* The lines of the text of a page.
PageLines ==
    { "Dense Retrieval for Questions",
      "Abstract",
      " ABSTRACT ",
      "Abstract of the talk",
      "We train a dense retriever on Wikipedia.",
      "" }

RECURSIVE SeqsUpTo(_, _)
\* The sequences of at most n elements of S.
SeqsUpTo(S, n) ==
    IF n = 0 THEN {<<>>}
    ELSE LET shorter == SeqsUpTo(S, n - 1)
         IN  shorter \cup {Append(q, x) : q \in shorter, x \in S}

\* The pages after the first: none, an empty one, one that opens a section,
\* one with an abstract line of its own, and two pages.
RestPages ==
    { <<>>,
      <<<<>>>>,
      <<<<"1 Introduction", "Questions are answered from passages.">>>>,
      <<<<"Abstract", "Second page.">>>>,
      <<<<>>, <<"Appendix", "", "More text.">>>> }

InitPages ==
    /\ InitRun
    /\ NoWindow
    /\ NoFirstRun
    /\ NoStore
    /\ \E first \in SeqsUpTo(PageLines, MaxPageLines) :
       \E rest \in RestPages :
          pages = <<first>> \o rest
    /\ full_text = None
    /\ blocks = <<>>

\* Lines 224-241 of process_document: the pages are read and cut into
\* blocks.
ReadPages ==
    /\ pages # <<>>
    /\ full_text = None
    /\ full_text' = FullText(pages)
    /\ blocks' = StripNonEmpty(SplitOn(full_text', "\n\n"))
    /\ UNCHANGED <<pages, runVars, window, verdict, first_run, storeVars>>

NextPages == ReadPages

SpecPages == InitPages /\ [][NextPages]_vars

(***************************************************************************)
(* process_and_store_docs: each path of self.documents is processed, its   *)
(* chunks are embedded, the document row is upserted and the chunk rows    *)
(* are replaced.                                                           *)
(***************************************************************************)
\* s.rfind(c), counted from 1; 0 when c does not occur.
LastIndex(s, c) ==
    LET at == {i \in 1..Len(s) : Ch(s, i) = c}
    IN  IF at = {} THEN 0 ELSE CHOOSE i \in at : \A j \in at : j <= i

\* os.path.basename
basename(p) == SubSeq(p, LastIndex(p, "/") + 1, Len(p))

\* os.path.splitext(p)[0] of a name without separators: cut at the last
\* dot, unless only dots precede it.
splitext_root(p) ==
    LET dot == LastIndex(p, ".")
    IN  IF dot > 0 /\ (\E i \in 1..(dot - 1) : Ch(p, i) # ".")
        THEN SubSeq(p, 1, dot - 1)
        ELSE p

_arxiv_id_from_path(doc_path) == splitext_root(basename(doc_path))

\* self.documents is drawn from these paths.
DocumentPaths ==
    { "documents/2005.11401v4.pdf",
      "revised/2005.11401v4.pdf",
      "documents/1406.1078.pdf" }

\* The path being handled, and the doc_id process_document derives from it.
doc_path == doc_paths[Len(doc_paths)]

doc_id == _arxiv_id_from_path(doc_path)

\* Characters below 32 other than "\n", "\r", "\t" (the null byte is one of
\* them; the form feed is the one a text of the model holds).
ControlChars == {"\f"}

\* "".join(c for c in s if ...): s without its control characters, computed
\* from one control character to the next.
RECURSIVE Sanitized(_)
Sanitized(s) ==
    LET at == {i \in 1..Len(s) : Ch(s, i) \in ControlChars}
    IN  IF at = {} THEN s
        ELSE LET i == CHOOSE k \in at : \A j \in at : k <= j
             IN  SubSeq(s, 1, i - 1) \o Sanitized(SubSeq(s, i + 1, Len(s)))

_sanitize_text_for_db(s) == IF s = None THEN None ELSE Sanitized(s)

\* x or ""
OrEmpty(x) == IF x = None THEN "" ELSE x

\* What client.embeddings.create can come to in embed_chunks.
EmbedChunksOutcomes(chunk_list) ==
    IF chunk_list = <<>> THEN {NoCall} ELSE EmbeddingResults \cup {Raise}

\* embed_chunks: [] for no chunks; otherwise the chunks, each with the
\* embedding resp.data holds for it (none when resp.data is empty). The
\* chunks carry the doc_id flush() gave them.
embed_chunks(chunk_list, outcome) ==
    [i \in 1..Len(chunk_list) |->
        [doc_id |-> doc_id,
         content |-> chunk_list[i].content,
         embedding |-> IF outcome = "<no data>" THEN None ELSE outcome,
         section |-> chunk_list[i].section,
         subsection |-> chunk_list[i].subsection]]

\* What .execute() of a request to the store can come to.
ExecuteOutcomes == {"<ok>", Raise}

\* The row store_document upserts (the title is not modelled).
DocumentRow ==
    [doc_id |-> doc_id,
     arxiv_id |-> doc_id,
     document_summary |->
         OrEmpty(_sanitize_text_for_db(document.document_summary)),
     document_summary_embedding |-> document.document_summary_embedding]

\* The rows store_chunks inserts.
ChunkRows(chunk_list) ==
    [i \in 1..Len(chunk_list) |->
        [doc_id |-> chunk_list[i].doc_id,
         content |-> OrEmpty(_sanitize_text_for_db(chunk_list[i].content)),
         embedding |-> chunk_list[i].embedding,
         section |-> _sanitize_text_for_db(chunk_list[i].section),
         subsection |-> _sanitize_text_for_db(chunk_list[i].subsection)]]

\* table.upsert(row, on_conflict="doc_id")
Upsert(table, row) == {r \in table : r.doc_id # row.doc_id} \cup {row}

\* table.delete().eq("doc_id", id)
DeleteEq(table, id) == SelectSeq(table, LAMBDA r : r.doc_id # id)

InitStore ==
    /\ InitRun
    /\ NoWindow
    /\ NoFirstRun
    /\ NoPages
    /\ \E p \in DocumentPaths : doc_paths = <<p>>
    /\ chunks = <<>>
    /\ documents_table = {}
    /\ chunks_table = <<>>

\* The document being handled can take another line.
StoreReads == doc_paths # <<>> /\ Len(doc) < MaxStoreLines

\* chunks = self.embed_chunks(document, chunks)
EmbedChunks ==
    /\ pc = "done"
    /\ doc_paths # <<>>
    /\ \E e \in EmbedChunksOutcomes(chunks_out) :
          IF e = Raise
          THEN pc' = "raised" /\ UNCHANGED chunks
          ELSE /\ pc' = "store_document"
               /\ chunks' = embed_chunks(chunks_out, e)
    /\ UNCHANGED <<doc, current_section, current_subsection, section_content,
                   current_part, in_references, chunks_out, section_sentences,
                   document_summary, document, fact_log, summary_log,
                   embed_log, acc_labels, headers>>
    /\ UNCHANGED <<window, verdict, first_run, pageVars, doc_paths,
                   documents_table, chunks_table>>

\* self.store_document(document)
StoreDocument ==
    /\ pc = "store_document"
    /\ \E upserted \in ExecuteOutcomes :
          IF upserted = Raise
          THEN pc' = "raised" /\ UNCHANGED documents_table
          ELSE /\ pc' = "store_chunks"
               /\ documents_table' = Upsert(documents_table, DocumentRow)
    /\ UNCHANGED <<doc, current_section, current_subsection, section_content,
                   current_part, in_references, chunks_out, section_sentences,
                   document_summary, document, fact_log, summary_log,
                   embed_log, acc_labels, headers>>
    /\ UNCHANGED <<window, verdict, first_run, pageVars, doc_paths, chunks,
                   chunks_table>>

\* self.store_chunks(chunks)
StoreChunks ==
    /\ pc = "store_chunks"
    /\ IF chunks = <<>>
       THEN pc' = "stored" /\ UNCHANGED chunks_table
       ELSE \E deleted \in ExecuteOutcomes, inserted \in ExecuteOutcomes :
               IF deleted = Raise
               THEN pc' = "raised" /\ UNCHANGED chunks_table
               ELSE IF inserted = Raise
               THEN /\ pc' = "raised"
                    /\ chunks_table' = DeleteEq(chunks_table, chunks[1].doc_id)
               ELSE /\ pc' = "stored"
                    /\ chunks_table' =
                          DeleteEq(chunks_table, chunks[1].doc_id)
                              \o ChunkRows(chunks)
    /\ UNCHANGED <<doc, current_section, current_subsection, section_content,
                   current_part, in_references, chunks_out, section_sentences,
                   document_summary, document, fact_log, summary_log,
                   embed_log, acc_labels, headers>>
    /\ UNCHANGED <<window, verdict, first_run, pageVars, doc_paths, chunks,
                   documents_table>>

\* for doc_path in self.documents: the next path, and process_document
\* starts on it.
NextDocument ==
    /\ pc = "stored"
    /\ Len(doc_paths) < MaxDocuments
    /\ \E p \in DocumentPaths :
          /\ \A i \in 1..Len(doc_paths) : doc_paths[i] # p
          /\ doc_paths' = Append(doc_paths, p)
    /\ chunks' = <<>>
    /\ pc' = "lines"
    /\ doc' = <<>>
    /\ current_section' = InitialSection
    /\ current_subsection' = None
    /\ section_content' = <<>>
    /\ current_part' = <<>>
    /\ in_references' = FALSE
    /\ chunks_out' = <<>>
    /\ section_sentences' = <<>>
    /\ document_summary' = None
    /\ document' = None
    /\ fact_log' = <<>>
    /\ summary_log' = <<>>
    /\ embed_log' = <<>>
    /\ acc_labels' = <<>>
    /\ headers' = <<>>
    /\ UNCHANGED <<window, verdict, first_run, pageVars, documents_table,
                   chunks_table>>

\* The documents are of one block, drawn from StoreLines.
NextStore ==
    \/ \E l \in StoreLines : StoreReads /\ NumberedHeader(l)
    \/ \E l \in StoreLines : StoreReads /\ PlainLine(l)
    \/ EndDocument
    \/ CondenseSummary
    \/ EmbedAndReturn
    \/ EmbedChunks
    \/ StoreDocument
    \/ StoreChunks
    \/ NextDocument

SpecStore == InitStore /\ [][NextStore]_vars

TypeOK ==
    /\ pc \in {"lines", "condense", "embed", "done", "raised",
               "store_document", "store_chunks", "stored"}
    /\ Len(doc) <= MaxLines
    /\ Len(acc_labels) = Len(doc)
    /\ in_references \in BOOLEAN

(***************************************************************************)
(* Properties.                                                             *)
(***************************************************************************)
Body == "We train a dense retriever on Wikipedia."

Range(f) == {f[i] : i \in DOMAIN f}

\* The line at position p opens the references when read outside them.
OpensReferences(l) ==
    l \in Lines /\ (LineTests[l].standalone
                    \/ (LineTests[l].numbered /\ LineTests[l].references_title))

\* The line at position p is appendix-shaped.
AppendixShaped(l) == l \in Lines /\ LineTests[l].appendix

RECURSIVE ReferencesSpan(_, _, _)
\* The positions of d from i on that hold a references header, a line
\* between it and the next appendix-shaped header, or that header; inside
\* tells whether position i follows an open references header.
ReferencesSpan(d, i, inside) ==
    IF i > Len(d) THEN {}
    ELSE IF d[i] = BlockSeparator THEN ReferencesSpan(d, i + 1, inside)
    ELSE IF inside THEN {i} \cup ReferencesSpan(d, i + 1, ~AppendixShaped(d[i]))
    ELSE IF OpensReferences(d[i]) THEN {i} \cup ReferencesSpan(d, i + 1, TRUE)
    ELSE ReferencesSpan(d, i + 1, FALSE)

\* C1: no line from a references header up to the next appendix-shaped
\* header (both headers included) is part of the text of an emitted chunk
\* or of a text sent to the per-section fact extractor.
C1_ReferencesNeverChunked ==
    LET span == ReferencesSpan(doc, 1, FALSE)
    IN  /\ \A i \in DOMAIN chunks_out : Range(chunks_out[i].src) \cap span = {}
        /\ \A i \in DOMAIN fact_log : Range(fact_log[i].src) \cap span = {}

\* A body line was discarded inside the references and a chunk was emitted
\* from body text read after the appendix header that ended them.
C1_Witness ==
    \E i \in DOMAIN chunks_out : \E p \in ReferencesSpan(doc, 1, FALSE) :
        /\ doc[p] = Body
        /\ \E q \in Range(chunks_out[i].src) : q > p /\ doc[q] = Body

\* C2: every emitted chunk carries the section and subsection labels that
\* were current when each line of its text was accumulated, never the labels
\* of the header that triggered its flush. (A whitespace-only line left in
\* the buffer by a flush that returned early puts no character in the
\* stripped text of a chunk.)
C2_ChunkLabelsAsAccumulated ==
    \A i \in DOMAIN chunks_out : \A p \in Range(chunks_out[i].src) :
        Strip(doc[p]) # "" =>
            acc_labels[p] = [section |-> chunks_out[i].section,
                             subsection |-> chunks_out[i].subsection]

\* A header line flushed a chunk and then replaced the labels the chunk
\* carries.
C2_Witness ==
    \E i \in DOMAIN chunks_out :
        /\ headers # <<>>
        /\ headers[Len(headers)].pos > chunks_out[i].src[Len(chunks_out[i].src)]
        /\ <<chunks_out[i].section, chunks_out[i].subsection>>
              # <<current_section, current_subsection>>

\* The chunks this step appended to chunks_out.
EmittedNow == {chunks_out'[i] : i \in (Len(chunks_out) + 1)..Len(chunks_out')}

\* C3: a chunk emitted with a subsection label was flushed while the last
\* heading applied was a numbered subsection header (so one was processed
\* after the most recent section-level header), and applying a section-level
\* header resets the subsection label to none.
C3_SubsectionSinceSection ==
    [][/\ \A c \in EmittedNow :
             c.subsection # None =>
                /\ headers # <<>>
                /\ headers[Len(headers)].level = "subsection"
                /\ c.subsection = Strip(doc[headers[Len(headers)].pos])
       /\ (/\ Len(headers') = Len(headers) + 1
           /\ headers'[Len(headers')].level = "section")
             => current_subsection' = None]_vars

\* A chunk carries a subsection label, and a section-level header applied
\* after it has cleared the current subsection.
C3_Witness ==
    /\ \E i \in DOMAIN chunks_out : chunks_out[i].subsection # None
    /\ Len(headers) >= 2
    /\ headers[Len(headers) - 1].level = "subsection"
    /\ headers[Len(headers)].level = "section"
    /\ current_subsection = None

\* C4: the current section label is never null (nor empty), and so is the
\* section label of every emitted chunk.
C4_SectionNeverNull ==
    /\ current_section \notin {None, ""}
    /\ \A i \in DOMAIN chunks_out : chunks_out[i].section \notin {None, ""}

\* Chunks were emitted under the initial section and under a header line
\* that replaced it.
C4_Witness ==
    /\ \E i \in DOMAIN chunks_out : chunks_out[i].section = "Abstract"
    /\ \E i \in DOMAIN chunks_out : chunks_out[i].section = "1 Introduction"
    /\ current_subsection # None

\* The numeric prefix of a numbered header line contains a dot.
DottedHeader(l) ==
    LineTests[l].numbered /\ Contains(LineTests[l].match.number, ".")

\* The positions of the lines held in the buffer and in the open part.
Buffered == Range(Positions(section_content)) \cup Range(current_part)

\* C5: inside the references, an appendix-shaped header line (when its
\* step completes) leaves the references and is applied as a heading: with a
\* dotted numeric prefix it becomes the current subsection and the section
\* stays, otherwise it becomes the current section and the subsection is
\* cleared. The lines after it are accumulated again, and the text
\* accumulated when the document ends outside the references is flushed.
C5_AppendixEndsReferences ==
    [][/\ \A l \in Lines :
             (/\ in_references
              /\ doc' = Append(doc, l)
              /\ AppendixShaped(l)
              /\ pc' # "raised")
             => /\ ~in_references'
                /\ current_part' = <<>>
                /\ IF DottedHeader(l)
                   THEN /\ current_subsection' = Strip(l)
                        /\ current_section' = current_section
                   ELSE /\ current_section' = Strip(l)
                        /\ current_subsection' = None
       /\ \A l \in Lines :
             (/\ ~in_references
              /\ doc' = Append(doc, l)
              /\ ~OpensReferences(l)
              /\ ~LineTests[l].numbered)
             => current_part' = Append(current_part, Len(doc'))
       /\ (pc = "lines" /\ pc' = "condense" /\ ~in_references)
             => \A p \in Buffered :
                   Strip(doc[p]) # "" =>
                      \E i \in DOMAIN fact_log' : p \in Range(fact_log'[i].src)
      ]_vars

\* A dotted appendix header ended the references and a chunk was emitted
\* under it as subsection, the section being the one from before.
C5_Witness ==
    \E i \in DOMAIN chunks_out :
        /\ chunks_out[i].subsection = "8.1 Appendix details"
        /\ chunks_out[i].section = "1 Introduction"
        /\ headers[Len(headers)].pos \in ReferencesSpan(doc, 1, FALSE)

\* C6: outside the references, an appendix-shaped line takes the transition
\* its other tests give it: it enters the references only as a references
\* header, opens a section or subsection only as a numbered header, and is
\* otherwise appended to the open part with nothing flushed and no label
\* changed.
C6_AppendixNotSpecialOutside ==
    [][\A l \in Lines :
          (/\ ~in_references
           /\ doc' = Append(doc, l)
           /\ AppendixShaped(l)
           /\ pc' # "raised")
          => /\ in_references' = OpensReferences(l)
             /\ IF OpensReferences(l)
                THEN UNCHANGED <<current_section, current_subsection, current_part>>
                ELSE IF LineTests[l].numbered
                THEN /\ current_part' = <<>>
                     /\ IF DottedHeader(l)
                        THEN /\ current_subsection' = Strip(l)
                             /\ current_section' = current_section
                        ELSE /\ current_section' = Strip(l)
                             /\ current_subsection' = None
                ELSE /\ current_part' = Append(current_part, Len(doc'))
                     /\ UNCHANGED <<current_section, current_subsection,
                                    section_content, chunks_out, fact_log,
                                    section_sentences>>
      ]_vars

\* An unnumbered appendix line read outside the references became part of
\* the text of a chunk.
C6_Witness ==
    \E i \in DOMAIN chunks_out : \E p \in Range(chunks_out[i].src) :
        /\ doc[p] = "Appendix"
        /\ p \notin ReferencesSpan(doc, 1, FALSE)
        /\ chunks_out[i].section = "Abstract"

\* C7 (as claimed): a fact request that fails does not abort segmentation,
\* and the flush it failed in still emits its chunk.
C7_FactFailureTolerated ==
    \A i \in DOMAIN fact_log :
        fact_log[i].response = Raise =>
            /\ pc # "raised"
            /\ _is_proper_chunk_text(fact_log[i].text) =>
                  \E j \in DOMAIN chunks_out : chunks_out[j].src = fact_log[i].src

\* C8 (as claimed): a summary or embedding request that fails does not fail
\* the document.
C8_SummaryFailureTolerated ==
    /\ (\E i \in DOMAIN summary_log : summary_log[i].response = Raise)
          => pc # "raised"
    /\ (\E i \in DOMAIN embed_log : embed_log[i].response = Raise)
          => pc # "raised"

\* C9: with an empty fact-sentence list after segmentation, the summary is
\* the empty string, neither the summarizer nor the embedder is sent a
\* request, and the returned Document has a null summary embedding.
C9_EmptyFactsNoRequests ==
    (pc \in {"embed", "done"} /\ section_sentences = <<>>)
      => /\ document_summary = ""
         /\ summary_log = <<>>
         /\ embed_log = <<>>
         /\ pc = "done" =>
               document = [document_summary |-> "",
                           document_summary_embedding |-> None]

\* A document whose flushes ran and emitted a chunk, but got no fact
\* sentence, was returned.
C9_Witness ==
    /\ pc = "done"
    /\ section_sentences = <<>>
    /\ chunks_out # <<>>
    /\ fact_log # <<>>

RECURSIVE FactsReturned(_)
\* The non-empty fact sentences the requests of log returned, in order.
FactsReturned(log) ==
    IF log = <<>> THEN <<>>
    ELSE LET e == log[Len(log)]
             before == FactsReturned(SubSeq(log, 1, Len(log) - 1))
             usage_line == _extract_section_usage_line(e.text, e.response)
         IN  IF e.response # Raise /\ usage_line # ""
             THEN Append(before, usage_line)
             ELSE before

\* C10: the fact-sentence list is, in flush order, the non-empty sentences
\* the fact extractor returned for the flushed texts, at most one per flush
\* with non-empty text; a flush of an empty buffer sends no request.
C10_FactSentencesInFlushOrder ==
    /\ section_sentences = FactsReturned(fact_log)
    /\ Len(section_sentences) <= Len(fact_log)
    /\ \A i \in DOMAIN section_sentences : section_sentences[i] # ""
    /\ \A i \in DOMAIN fact_log :
          fact_log[i].src # <<>> /\ Strip(fact_log[i].text) # ""

\* Two flushes had text and each gave its fact sentence.
C10_Witness ==
    /\ Len(fact_log) = 2
    /\ Len(section_sentences) = 2
    /\ section_sentences[1] = "Fact 1."
    /\ section_sentences[2] = "Fact 2."

\* The words that name the references.
ReferencesWords == {"references", "bibliography"}

\* The tokens of the trimmed line, in lower case.
LowerTokens(l) == Split(Lower(Strip(l)))

\* The standalone references header as the specification words it: the
\* numbered form is a number, whitespace, and text that begins with one of
\* the words.
StandaloneAsClaimed(l) ==
    LET toks == LowerTokens(l)
    IN  /\ Len(toks) >= 1
        /\ Len(toks) <= 10
        /\ \/ Len(toks) = 1 /\ toks[1] \in ReferencesWords
           \/ /\ Len(toks) >= 2
              /\ IsDottedInt(toks[1])
              /\ \E w \in ReferencesWords : StartsWith(toks[2], w)
           \/ /\ Len(toks) >= 2
              /\ Len(toks) <= 4
              /\ toks[1] \in ReferencesWords

\* The same with the numbered form read as a number followed by one of the
\* words as a whole token.
StandaloneWholeWord(l) ==
    LET toks == LowerTokens(l)
    IN  /\ Len(toks) >= 1
        /\ Len(toks) <= 10
        /\ \/ Len(toks) = 1 /\ toks[1] \in ReferencesWords
           \/ /\ Len(toks) >= 2
              /\ IsDottedInt(toks[1])
              /\ toks[2] \in ReferencesWords
           \/ /\ Len(toks) >= 2
              /\ Len(toks) <= 4
              /\ toks[1] \in ReferencesWords

\* Every non-blank line held in the buffer or the open part is in the text
\* of a flush once the step is taken, and the buffer is left without text.
BufferFlushed ==
    /\ \A p \in Buffered :
          Strip(doc[p]) # "" =>
             \E i \in DOMAIN fact_log' : p \in Range(fact_log'[i].src)
    /\ Combined(doc', section_content') = ""

\* The step reads line l outside the references and completes.
ReadsOutside(l) ==
    /\ ~in_references
    /\ doc' = Append(doc, l)
    /\ pc' # "raised"

\* C11 (as claimed): a line read outside the references is tested as a
\* standalone references header exactly when it has at most 10 tokens and is
\* one of the two words, or starts with a dotted number, whitespace and one
\* of the words, or has at most 4 tokens and starts with one of the words
\* and a space; such a line flushes the buffer, sets the in-references flag
\* and changes no label.
C11_StandaloneAsClaimed ==
    [][\A l \in HeaderLines :
          ReadsOutside(l)
          => /\ LineTests[l].standalone = StandaloneAsClaimed(l)
             /\ StandaloneAsClaimed(l)
                   => /\ in_references'
                      /\ BufferFlushed
                      /\ UNCHANGED <<current_section, current_subsection,
                                     headers>>
      ]_vars

\* C11 (amended): the same, the numbered form being a dotted number,
\* whitespace, and one of the words followed by whitespace or the end of
\* the line.
C11_StandaloneReferencesHeader ==
    [][\A l \in HeaderLines :
          ReadsOutside(l)
          => /\ LineTests[l].standalone = StandaloneWholeWord(l)
             /\ StandaloneWholeWord(l)
                   => /\ in_references'
                      /\ BufferFlushed
                      /\ UNCHANGED <<current_section, current_subsection,
                                     headers>>
      ]_vars

\* "6 References" was read after body text outside the references: the text
\* was flushed into a chunk of the initial section, the references are
\* entered and no heading was applied.
C11_Witness ==
    /\ Len(doc) = 2
    /\ doc[2] = "6 References"
    /\ in_references
    /\ headers = <<>>
    /\ current_section = InitialSection
    /\ Len(chunks_out) = 1
    /\ Combined(doc, section_content) = ""

\* A numbered header line of at most 15 tokens: a dotted number, then a
\* title.
NumberedShape(l) ==
    LET toks == LowerTokens(l)
    IN  Len(toks) >= 2 /\ Len(toks) <= 15 /\ IsDottedInt(toks[1])

\* The title of the numbered header line names the references, in any case.
TitleNamesReferences(l) ==
    LET toks == LowerTokens(l)
    IN  \E i \in 2..Len(toks) : \E w \in ReferencesWords : Contains(toks[i], w)

\* C12: outside the references, a numbered header line of at most 15 tokens
\* whose title contains 'references' or 'bibliography' in any case (when its
\* step completes) flushes the buffer and enters the references, and changes
\* neither the current section nor the current subsection: no heading is
\* applied.
C12_NumberedReferencesHeader ==
    [][\A l \in HeaderLines :
          (ReadsOutside(l) /\ NumberedShape(l) /\ TitleNamesReferences(l))
          => /\ in_references'
             /\ BufferFlushed
             /\ UNCHANGED <<current_section, current_subsection, headers>>
             /\ \A i \in DOMAIN chunks_out' : chunks_out'[i].section # Strip(l)
      ]_vars

\* "7 Related References" was read after body text under the section
\* "1 Introduction": the text was flushed under that section, the references
\* are entered and the section is still "1 Introduction".
C12_Witness ==
    /\ Len(doc) = 3
    /\ doc[1] = "1 Introduction"
    /\ doc[3] = "7 Related References"
    /\ in_references
    /\ current_section = "1 Introduction"
    /\ Len(headers) = 1
    /\ Len(chunks_out) = 1
    /\ chunks_out[1].section = "1 Introduction"

\* The seven conditions of the specification on a text, with its
\* thresholds as percentages and tenths.
SevenConditions(text) ==
    LET s == Strip(text)
        ws == Split(s)
        n == Len(s)
        nw == Len(ws)
        digits == Cardinality({i \in 1..n : Ch(s, i) \in DigitChars})
        ones == Cardinality({i \in 1..nw : Len(ws[i]) = 1})
        alphabetic ==
            Cardinality({i \in 1..nw :
                            \E j \in 1..Len(ws[i]) : IsAlpha(Ch(ws[i], j))})
        forms == Cardinality({Lower(ws[i]) : i \in 1..nw})
        punctuated == \E i \in 1..n : Ch(s, i) \in {".", "!", "?"}
        uppercase == /\ \E i \in 1..n : IsUpperCh(Ch(s, i))
                     /\ \A i \in 1..n : ~IsLowerCh(Ch(s, i))
    IN  /\ n >= 35 /\ nw >= 5
        /\ 100 * digits <= 40 * n
        /\ 100 * ones <= 28 * nw
        /\ 100 * alphabetic >= 50 * nw
        /\ 100 * forms >= 30 * nw
        /\ (punctuated \/ 10 * SumLen(ws) >= 32 * nw)
        /\ ~(uppercase /\ n < 80)

\* C13: the classifier accepts a window exactly when the seven conditions
\* hold of its trimmed text; it accepts the sentence of the first scenario
\* and refuses the digit run of the second.
C13_SevenConditions ==
    /\ verdict = SevenConditions(Text(window))
    /\ Text(window) = "The method achieves 94% accuracy on the test set using a transformer encoder."
          => verdict
    /\ Text(window) = "12 45 78 90 3 21" => ~verdict

\* A window whose digit share is exactly 0.40 was accepted and, with one
\* more digit appended, refused.
C13_Witness ==
    /\ window = <<"run1234567 set1234567 on the tests.", "7">>
    /\ ~verdict
    /\ _is_proper_chunk_text(window[1])

\* The window is an accepted window (its first k pieces) followed by
\* sentences only, at least one.
AcceptedThenSentences(k) ==
    /\ k < Len(window)
    /\ _is_proper_chunk_text(Text(SubSeq(window, 1, k)))
    /\ \A i \in (k + 1)..Len(window) : window[i] \in Sentences

\* At most 28 in 100 words of the text are one letter long.
FewOneLetterWords(text) ==
    LET ws == Split(Strip(text))
    IN  100 * Cardinality({i \in 1..Len(ws) : Len(ws[i]) = 1}) <= 28 * Len(ws)

\* At least 30 in 100 words of the text are distinct lowercase forms.
EnoughDistinctWords(text) ==
    LET ws == Split(Strip(text))
    IN  100 * Cardinality({Lower(ws[i]) : i \in 1..Len(ws)}) >= 30 * Len(ws)

C14_RefusedAfterSentences ==
    /\ window \in { <<"We train a dense retriever on Wikipedia.",
                       "I am a man.", "I am a man.">>,
                     <<"data data data data model model model tests tests tests",
                       "Data model tests.", "Data model tests.">> }
    /\ AcceptedThenSentences(2)
    /\ ~verdict

\* What a chunk list returns to the caller: texts and labels, in order.
Returned(chunk_list) ==
    [i \in 1..Len(chunk_list) |->
        [content |-> chunk_list[i].content,
         section |-> chunk_list[i].section,
         subsection |-> chunk_list[i].subsection]]

\* C15: a second run of process_document on the document of a first run
\* that returned, once its loop has ended without a failed request, has
\* the chunk list of the first run (same texts, same section and subsection
\* labels, same order), whatever the fact extractor and the summarizer
\* returned in either run.
C15_SameChunksOnReplay ==
    (first_run # <<>> /\ pc \in {"condense", "embed", "done"})
    => Returned(chunks_out) = Returned(first_run[1].chunks)

\* Both runs returned two chunks, the fact extractor and the summarizer
\* having answered differently in the two runs.
C15_Witness ==
    /\ first_run # <<>>
    /\ pc = "done"
    /\ Len(chunks_out) = 2
    /\ section_sentences # first_run[1].section_sentences
    /\ section_sentences # <<>>
    /\ first_run[1].section_sentences # <<>>
    /\ document.document_summary # first_run[1].document.document_summary

\* The line matches the numbered-header pattern: a dotted number, then a
\* title.
MatchesPattern(l) ==
    LET toks == LowerTokens(l)
    IN  Len(toks) >= 2 /\ IsDottedInt(toks[1])

\* The numeric prefix of the line contains a dot.
DottedPrefix(l) == Contains(LowerTokens(l)[1], ".")

\* The transition of a numbered header line l that is applied as a
\* heading, and of a matching line of more than 15 tokens.
AppliedAsHeading(l) ==
    IF Len(LowerTokens(l)) > 15
    THEN /\ current_part' = Append(current_part, Len(doc'))
         /\ UNCHANGED <<current_section, current_subsection, in_references,
                        section_content, chunks_out, fact_log, headers>>
    ELSE /\ BufferFlushed
         /\ current_part' = <<>>
         /\ ~in_references'
         /\ IF DottedPrefix(l)
            THEN /\ current_subsection' = Strip(l)
                 /\ current_section' = current_section
            ELSE /\ current_section' = Strip(l)
                 /\ current_subsection' = None

\* C16 (as claimed): outside the references, a line that matches the
\* numbered-header pattern with at most 15 tokens flushes the buffer and
\* becomes the current subsection if its prefix has a dot (section and
\* in-references flag unchanged), the current section with the subsection
\* cleared if it has none; with more than 15 tokens it is appended to the
\* open part as plain text.
C16_NumberedHeaderAsClaimed ==
    [][\A l \in HeaderLines :
          (ReadsOutside(l) /\ MatchesPattern(l)) => AppliedAsHeading(l)
      ]_vars

\* C16 (amended): the same for the lines whose title does not contain
\* 'references' or 'bibliography'.
C16_NumberedHeaderFrame ==
    [][\A l \in HeaderLines :
          (ReadsOutside(l) /\ MatchesPattern(l) /\ ~TitleNamesReferences(l))
          => AppliedAsHeading(l)
      ]_vars

\* Body text was flushed by "3.2 Retrieval-Augmented Generation", which is
\* the current subsection under the initial section, and a matching line of
\* 16 tokens is in the open part.
C16_Witness ==
    /\ Len(doc) = 3
    /\ doc[2] = "3.2 Retrieval-Augmented Generation"
    /\ doc[3] = "4 a b c d e f g h i j k l m n o"
    /\ current_subsection = "3.2 Retrieval-Augmented Generation"
    /\ current_section = InitialSection
    /\ ~in_references
    /\ Len(chunks_out) = 1
    /\ current_part = <<3>>

\* C17: the summary request is sent at most once, when the loop has ended
\* with its last flush, and is given the fact sentences in flush order; once
\* it is sent nothing is flushed; the summary is set at that step, the
\* Document only after it, and the embedding request, sent at most once,
\* comes after a summary request that returned.
C17_SummaryAfterLastFlush ==
    [][/\ Len(summary_log') <= 1
       /\ Len(embed_log') <= 1
       /\ summary_log' # summary_log
             => /\ pc = "condense"
                /\ summary_log'[1].sentences = FactsReturned(fact_log)
       /\ (summary_log # <<>> \/ pc \in {"condense", "embed", "done"})
             => UNCHANGED <<fact_log, chunks_out, section_sentences>>
       /\ document_summary' # document_summary
             => /\ pc = "condense"
                /\ section_sentences # <<>> => summary_log' # <<>>
       /\ IF pc' = "done"
          THEN /\ pc \in {"embed", "done"}
               /\ document_summary # None
               /\ document'.document_summary = document_summary
          ELSE document' = None
       /\ embed_log' # embed_log
             => /\ pc = "embed"
                /\ summary_log # <<>>
                /\ summary_log[1].response # Raise
      ]_vars

\* The Document was returned with a summary and an embedding after a summary
\* request that was given two fact sentences.
C17_Witness ==
    /\ pc = "done"
    /\ Len(summary_log) = 1
    /\ Len(summary_log[1].sentences) = 2
    /\ Len(embed_log) = 1
    /\ document.document_summary # ""
    /\ document.document_summary_embedding # None

RECURSIVE NonBlank(_)
\* The lines of ls that are not blank, trimmed.
NonBlank(ls) ==
    IF ls = <<>> THEN <<>>
    ELSE (IF Strip(Head(ls)) # "" THEN <<Strip(Head(ls))>> ELSE <<>>)
         \o NonBlank(Tail(ls))

RECURSIVE LinesOfBlocks(_)
\* The lines the loop reads from the blocks bs, in order.
LinesOfBlocks(bs) ==
    IF bs = <<>> THEN <<>>
    ELSE SplitOn(Head(bs), "\n") \o LinesOfBlocks(Tail(bs))

RECURSIVE LinesOfPages(_)
\* The lines of the pages ps, in order.
LinesOfPages(ps) ==
    IF ps = <<>> THEN <<>> ELSE Head(ps) \o LinesOfPages(Tail(ps))

\* The line is exactly the word 'abstract', in any case, surrounding
\* whitespace aside.
AbstractMarker(l) == Lower(Strip(l)) \in {"abstract"}

\* The lines of the first page that are segmented: those after its first
\* abstract marker, all of them if it has none.
AfterMarker(page) ==
    IF \E i \in DOMAIN page : AbstractMarker(page[i])
    THEN LET k == CHOOSE i \in DOMAIN page :
                      /\ AbstractMarker(page[i])
                      /\ \A j \in 1..(i - 1) : ~AbstractMarker(page[j])
         IN  SubSeq(page, k + 1, Len(page))
    ELSE page

\* C18: the lines the loop reads under the initial section are the lines of
\* page 1 after its first line that is exactly 'abstract' (in any case), or
\* all its lines if there is none, followed by the lines of the later
\* pages: the lines before the marker and the marker are discarded, and an
\* empty first page leaves the lines of the later pages.
C18_FirstPageFromAbstract ==
    full_text # None
    => NonBlank(LinesOfBlocks(blocks))
          = NonBlank(AfterMarker(pages[1]))
            \o NonBlank(LinesOfPages(Tail(pages)))

\* A first page with a title, the abstract line and body text was read
\* with a second page: the blocks start with the body text.
C18_Witness ==
    /\ full_text # None
    /\ pages[1] = <<"Dense Retrieval for Questions", " ABSTRACT ",
                    "We train a dense retriever on Wikipedia.">>
    /\ Len(pages) = 2
    /\ blocks = <<"We train a dense retriever on Wikipedia.",
                  "1 Introduction\nQuestions are answered from passages.">>

\* C19 (as claimed): no non-blank line is part of the text of two flushes:
\* the text a flush consumed is never given to the fact extractor again and
\* never emitted in a second chunk.
C19_FlushedOnce ==
    /\ \A i, j \in DOMAIN fact_log :
          i # j =>
             \A p \in Range(fact_log[i].src) \cap Range(fact_log[j].src) :
                Strip(doc[p]) = ""
    /\ \A i, j \in DOMAIN chunks_out :
          i # j =>
             \A p \in Range(chunks_out[i].src) \cap Range(chunks_out[j].src) :
                Strip(doc[p]) = ""

\* C20: while the in-references flag is set, section_content holds no
\* non-blank text, and every non-blank line accumulated so far is in the
\* text of a flush: a document that ends inside the references, where the
\* final flush is skipped, has lost none of them.
C20_NothingBufferedInReferences ==
    in_references
    => /\ Combined(doc, section_content) = ""
       /\ \A p \in DOMAIN doc :
             (acc_labels[p] # NoLabels /\ Strip(doc[p]) # "")
             => \E i \in DOMAIN fact_log : p \in Range(fact_log[i].src)

\* The document ended inside the references after body text in two blocks
\* was flushed at the references header.
C20_Witness ==
    /\ pc = "condense"
    /\ in_references
    /\ Len(doc) = 4
    /\ doc[2] = BlockSeparator
    /\ Len(fact_log) = 1
    /\ Range(fact_log[1].src) = {1, 3}
    /\ Len(chunks_out) = 1

\* The characters of s that are not control characters, in order.
Visible(s) ==
    SelectSeq([i \in 1..Len(s) |-> Ch(s, i)], LAMBDA c : c # "\f")

\* The rows the chunk store holds for document identifier id, in order.
StoredFor(id) == SelectSeq(chunks_table, LAMBDA r : r.doc_id = id)

\* The rows stored for the handled document are its run's chunks: as many,
\* in order, each with the text (control characters aside), the labels and
\* the embedding of the chunk.
HoldsThisRun ==
    LET rows == StoredFor(doc_id)
    IN  /\ Len(rows) = Len(chunks_out)
        /\ Len(chunks) = Len(chunks_out)
        /\ \A i \in 1..Len(rows) :
              /\ Visible(rows[i].content) = Visible(chunks_out[i].content)
              /\ rows[i].section = chunks_out[i].section
              /\ rows[i].subsection = chunks_out[i].subsection
              /\ rows[i].embedding = chunks[i].embedding

\* The document row of the handled document is the one of this run.
RowUpserted ==
    \E r \in documents_table :
        /\ r.doc_id = doc_id
        /\ Visible(r.document_summary) = Visible(document.document_summary)
        /\ r.document_summary_embedding = document.document_summary_embedding
        /\ \A q \in documents_table : q.doc_id = doc_id => q = r

\* C21: once process_and_store_docs has handled a document (its document
\* row upserted, store_chunks returned), the chunk store holds for the
\* document's identifier exactly the chunks this run produced, also when
\* the run produced no chunk and chunks of an earlier document of the same
\* identifier were stored.
C21_StoreHoldsThisRun ==
    pc = "stored" => RowUpserted /\ HoldsThisRun

\* The same for the runs that produced at least one chunk.
C21_StoredWhenChunks ==
    pc = "stored" /\ chunks_out # <<>> => RowUpserted /\ HoldsThisRun

\* A run that produced chunks has been handled after another document of
\* the same identifier, whose chunks were stored, and the rows of that
\* earlier document are gone.
C21_ReplacedWhenChunks ==
    /\ pc = "stored"
    /\ Len(doc_paths) = 2
    /\ _arxiv_id_from_path(doc_paths[1]) = doc_id
    /\ chunks_out # <<>>
    /\ Len(StoredFor(doc_id)) = 1
    /\ StoredFor(doc_id)[1].embedding = None
    /\ HoldsThisRun

\* Handling a document leaves the rows of the other identifiers alone.
C21_OtherDocumentsKept ==
    [][\A id \in {_arxiv_id_from_path(p) : p \in DocumentPaths} :
          (doc_paths # <<>> /\ doc_paths' = doc_paths /\ id # doc_id)
              => StoredFor(id)' = StoredFor(id)]_vars

====
